---- MODULE Spec2Model ----
(***************************************************************************)
(* Model of the owlow query-to-results pipeline: the Filter Interpreter    *)
(* (AIFilterParser.parse), the Record Normalizer                           *)
(* (PropertyNormalizer.normalize), the Property Filter Engine              *)
(* (PropertyRecommender.filter_properties), the Advisory Generator         *)
(* (Advisor.advise), the Batch Analyzer (PropertyAnalyzer) and the         *)
(* /recommend handler that chains them.                                    *)
(*                                                                         *)
(* Python strings whose content the code inspects are sequences of         *)
(* one-character strings; dictionary keys and column names are atomic      *)
(* strings.  A Python/JSON value is a record [t, n, s, l, d]: its type     *)
(* tag, its number, its characters, its list elements and its mapping.     *)
(***************************************************************************)
EXTENDS Integers, Sequences, FiniteSets, TLC

VARIABLES
    pc,          \* which operation has last completed ("idle" before any)
    oracleOut,   \* the oracle outcome the last single-call operation consumed
    filters,     \* AIFilterParser.parse: the returned dict
    record,      \* PropertyNormalizer.normalize: the raw record it was given
    prop,        \* PropertyNormalizer.normalize: the Property it returned
    df,          \* PropertyRecommender.df: the rows of the stored DataFrame
    results,     \* filter_properties: the rows of the returned DataFrame
    maxRetries,  \* Advisor.max_retries
    attempt,     \* Advisor.advise: the iterations of its loop that have ended
    calls,       \* oracle calls made by the operation in progress
    responses,   \* what each of those calls did, in order
    advice,      \* Advisor.advise: the returned text
    props,       \* PropertyAnalyzer: the properties it was given
    useLlm,      \* analyze_batch: its use_llm argument
    analyses,    \* PropertyAnalyzer: the analysis objects produced so far
    cacheMem,    \* SessionCache.mem: session id -> the filters saved under it
    response,    \* recommend: the returned mapping
    raised       \* the exception that escaped the last operation, or "none"

vars == <<pc, oracleOut, filters, record, prop, df, results, maxRetries, attempt, calls,
          responses, advice, props, useLlm, analyses, cacheMem, response, raised>>

advisorVars == <<maxRetries, attempt, calls, responses, advice>>
analyzerVars == <<props, useLlm, analyses>>
handlerVars == <<cacheMem, response>>

-----------------------------------------------------------------------------
(* Python / JSON values *)

NoChars == <<>>
NoElems == <<>>
NoMap == {}

Val(t, n, s, l, d) == [t |-> t, n |-> n, s |-> s, l |-> l, d |-> d]

Absent == Val("absent", 0, NoChars, NoElems, NoMap)   \* key not in the dict
PyNone == Val("null", 0, NoChars, NoElems, NoMap)
PyInt(n) == Val("int", n, NoChars, NoElems, NoMap)
PyFloat(n) == Val("float", n, NoChars, NoElems, NoMap)
PyBool(b) == Val("bool", IF b THEN 1 ELSE 0, NoChars, NoElems, NoMap)
PyStr(s) == Val("str", 0, s, NoElems, NoMap)
PyList(l) == Val("list", 0, NoChars, l, NoMap)
PyDict(d) == Val("dict", 0, NoChars, NoElems, d)

\* a list element: a string (hashable, usable as a dict key) or a nested
\* container (unhashable)
Elem(et, name) == [et |-> et, name |-> name]

Digits == {"0", "1", "2", "3", "4", "5", "6", "7", "8", "9"}

DigitVal(c) ==
    CASE c = "0" -> 0 [] c = "1" -> 1 [] c = "2" -> 2 [] c = "3" -> 3
      [] c = "4" -> 4 [] c = "5" -> 5 [] c = "6" -> 6 [] c = "7" -> 7
      [] c = "8" -> 8 [] c = "9" -> 9

Digits2Char(n) == CHOOSE c \in Digits : DigitVal(c) = n

RECURSIVE DecimalVal(_)
DecimalVal(s) ==
    IF s = <<>> THEN 0
    ELSE 10 * DecimalVal(SubSeq(s, 1, Len(s) - 1)) + DigitVal(s[Len(s)])

\* does float(v) / int(v) succeed on a string of this alphabet
IsNumeral(s) == s # <<>> /\ \A i \in DOMAIN s : s[i] \in Digits

\* float(v): the value, or Absent when float() raises (ValueError, TypeError)
FloatOf(v) ==
    CASE v.t \in {"int", "float", "bool"} -> PyFloat(v.n)
      [] v.t = "str" -> IF IsNumeral(v.s) THEN PyFloat(DecimalVal(v.s)) ELSE Absent
      [] OTHER -> Absent

-----------------------------------------------------------------------------
(* The oracle's text, as the parsers see it: a sequence of lexemes.  An    *)
(* lbrace / rbrace lexeme is a brace outside any JSON member, prose is any *)
(* run of other characters, member is one well-formed "key": value pair.   *)

Tok(k, key, val) == [k |-> k, key |-> key, val |-> val]
LBrace == Tok("lbrace", "", Absent)
RBrace == Tok("rbrace", "", Absent)
Prose == Tok("prose", "", Absent)
Member(key, val) == Tok("member", key, val)

\* one oracle call: it raises (msg is str(e)) or it returns output_text
OracleFail(msg) == [kind |-> "fail", text |-> <<>>, msg |-> msg]
OracleText(text) == [kind |-> "text", text |-> text, msg |-> NoChars]

BraceAt(raw, k) == {i \in DOMAIN raw : raw[i].k = k}

Min(S) == CHOOSE x \in S : \A y \in S : x <= y
Max(S) == CHOOSE x \in S : \A y \in S : x >= y

\* re.search(r"\{.*\}", raw, re.S): the span from the first "{" to the last
\* "}" (greedy), or <<>> when there is no match
HasSpan(raw) ==
    /\ BraceAt(raw, "lbrace") # {}
    /\ BraceAt(raw, "rbrace") # {}
    /\ Min(BraceAt(raw, "lbrace")) < Max(BraceAt(raw, "rbrace"))

Span(raw) == SubSeq(raw, Min(BraceAt(raw, "lbrace")), Max(BraceAt(raw, "rbrace")))

\* json.loads on a span: it decodes iff everything between the outer braces
\* is a member
SpanDecodes(span) == \A i \in 2..(Len(span) - 1) : span[i].k = "member"

FilterKeys ==
    {"city", "voivodeship", "district", "bedrooms", "price_min", "price_max",
     "area_min", "area_max", "features", "keywords"}
DictKeys == FilterKeys \cup {"error"}

\* json.loads result: a later duplicate of a key replaces an earlier one
JsonLoads(span, keys) ==
    [key \in keys |->
        LET at == {i \in 2..(Len(span) - 1) : span[i].key = key}
        IN  IF at = {} THEN Absent ELSE span[Max(at)].val]

NoFilters == [key \in DictKeys |-> Absent]

ErrorDict(msg) ==
    [key \in DictKeys |-> IF key = "error" THEN PyStr(msg) ELSE Absent]

MsgTransport == <<"t", "i", "m", "e", "o", "u", "t">>   \* str(e) of a transport failure
MsgNoJson == <<"n", "o", "_", "j", "s", "o", "n">>
MsgDecode == <<"E", "x", "p", "e", "c", "t", "i", "n", "g">>  \* str(JSONDecodeError)

-----------------------------------------------------------------------------
(* AIFilterParser.parse *)

\* lines 33-43: the oracle call, the brace search and json.loads, all inside
\* one try whose except turns any exception into {"error": str(e)}
ParseExtract(out) ==
    IF out.kind = "fail" THEN ErrorDict(out.msg)
    ELSE IF ~HasSpan(out.text) THEN ErrorDict(MsgNoJson)
    ELSE IF ~SpanDecodes(Span(out.text)) THEN ErrorDict(MsgDecode)
    ELSE JsonLoads(Span(out.text), DictKeys)

FilterDefaults(key) ==
    CASE key \in {"price_min", "area_min"} -> PyInt(0)
      [] key = "features" -> PyDict(NoMap)
      [] key = "keywords" -> PyList(NoElems)
      [] key = "error" -> Absent
      [] OTHER -> PyNone

\* lines 46-49: filters.setdefault(k, v) for every default
SetDefaults(f) ==
    [key \in DictKeys |-> IF f[key] = Absent THEN FilterDefaults(key) ELSE f[key]]

\* line 52 raises TypeError when a list element cannot be a dict key
FeaturesRaises(f) ==
    /\ f["features"].t = "list"
    /\ \E i \in DOMAIN f["features"].l : f["features"].l[i].et # "str"

\* lines 51-54
CoerceFeatures(f) ==
    [f EXCEPT !["features"] =
        IF @.t = "list"
        THEN PyDict({<<@.l[i].name, TRUE>> : i \in DOMAIN @.l})
        ELSE IF @.t # "dict" THEN PyDict(NoMap) ELSE @]

BoundKeys == {"price_min", "price_max", "area_min", "area_max"}

\* lines 56-61: float() each bound that is not None; None when float() raises
CoerceBounds(f) ==
    [key \in DictKeys |->
        IF key \in BoundKeys /\ f[key].t # "null"
        THEN IF FloatOf(f[key]) = Absent THEN PyNone ELSE FloatOf(f[key])
        ELSE f[key]]

\* the whole of parse: what it returns, or the exception that escapes it
ParseRaises(out) == FeaturesRaises(SetDefaults(ParseExtract(out)))
ParseReturn(out) == CoerceBounds(CoerceFeatures(SetDefaults(ParseExtract(out))))

-----------------------------------------------------------------------------
(* Character-level string operations.  A character outside ASCII is      *)
(* written as its code point, "U+00F3" for o-acute.                        *)

UpperChars ==
    <<"A", "B", "C", "D", "E", "F", "G", "H", "I", "J", "K", "L", "M",
      "N", "O", "P", "Q", "R", "S", "T", "U", "V", "W", "X", "Y", "Z">>
LowerChars ==
    <<"a", "b", "c", "d", "e", "f", "g", "h", "i", "j", "k", "l", "m",
      "n", "o", "p", "q", "r", "s", "t", "u", "v", "w", "x", "y", "z">>

LowerChar(c) ==
    IF \E i \in DOMAIN UpperChars : UpperChars[i] = c
    THEN LowerChars[CHOOSE i \in DOMAIN UpperChars : UpperChars[i] = c]
    ELSE c
UpperChar(c) ==
    IF \E i \in DOMAIN LowerChars : LowerChars[i] = c
    THEN UpperChars[CHOOSE i \in DOMAIN LowerChars : LowerChars[i] = c]
    ELSE c

\* str.lower()
Lower(s) == [i \in DOMAIN s |-> LowerChar(s[i])]
\* str.capitalize(): first character upper-cased, the rest lower-cased
Capitalize(s) == [i \in DOMAIN s |-> IF i = 1 THEN UpperChar(s[i]) ELSE LowerChar(s[i])]

\* needle in hay
Contains(hay, needle) ==
    \E i \in 0..(Len(hay) - Len(needle)) : SubSeq(hay, i + 1, i + Len(needle)) = needle

RECURSIVE FormatInt(_)
FormatInt(n) ==
    IF n < 10 THEN <<Digits2Char(n)>> ELSE FormatInt(n \div 10) \o <<Digits2Char(n % 10)>>

TrueChars == <<"T", "r", "u", "e">>
FalseChars == <<"F", "a", "l", "s", "e">>
NoneChars == <<"N", "o", "n", "e">>

\* the characters of a dictionary key or list element the samples use
NameChars(name) ==
    CASE name = "balcony" -> <<"b", "a", "l", "c", "o", "n", "y">>
      [] name = "balkon" -> <<"b", "a", "l", "k", "o", "n">>
      [] name = "" -> <<>>
      [] OTHER -> <<"x">>

RECURSIVE JoinChars(_, _)
\* sep.join(parts)
JoinChars(parts, sep) ==
    IF parts = <<>> THEN <<>>
    ELSE IF Len(parts) = 1 THEN parts[1]
    ELSE parts[1] \o sep \o JoinChars(Tail(parts), sep)

Space == <<" ">>

SetToSeq(S) == CHOOSE q \in [1..Cardinality(S) -> S] : \A x \in S : \E i \in DOMAIN q : q[i] = x

\* str(v)
StrOf(v) ==
    CASE v.t = "str" -> v.s
      [] v.t = "int" -> FormatInt(v.n)
      [] v.t = "float" -> FormatInt(v.n) \o <<".", "0">>
      [] v.t = "bool" -> IF v.n = 1 THEN TrueChars ELSE FalseChars
      [] v.t = "list" ->
            <<"[">> \o JoinChars([i \in DOMAIN v.l |-> <<"U+0027">> \o NameChars(v.l[i].name) \o <<"U+0027">>],
                                 <<",", " ">>) \o <<"]">>
      [] v.t = "dict" ->
            LET q == SetToSeq(v.d)
            IN  <<"{">> \o JoinChars([i \in DOMAIN q |->
                            <<"U+0027">> \o NameChars(q[i][1]) \o <<"U+0027", ":", " ">>
                            \o (IF q[i][2] THEN TrueChars ELSE FalseChars)],
                          <<",", " ">>) \o <<"}">>
      [] OTHER -> NoneChars

\* Python truthiness
Truthy(v) ==
    CASE v.t \in {"absent", "null"} -> FALSE
      [] v.t \in {"int", "float", "bool"} -> v.n # 0
      [] v.t = "str" -> v.s # <<>>
      [] v.t = "list" -> v.l # <<>>
      [] v.t = "dict" -> v.d # {}

\* a or b
OrElse(a, b) == IF Truthy(a) THEN a ELSE b

\* dict.get(key): None when the key is absent
GetOrNone(v) == IF v.t = "absent" THEN PyNone ELSE v

\* int(v): the value, or Absent when int() raises
IntOf(v) ==
    CASE v.t \in {"int", "float", "bool"} -> PyInt(v.n)
      [] v.t = "str" -> IF IsNumeral(v.s) THEN PyInt(DecimalVal(v.s)) ELSE Absent
      [] OTHER -> Absent

-----------------------------------------------------------------------------
(* PropertyNormalizer *)

FeatureNames ==
    {"balcony", "basement", "garden", "terrace", "parking", "elevator", "bathtub", "air_conditioning", "intercom", "separate_kitchen", "security"}

FEATURE_SYNONYMS(feat) ==
    CASE feat = "balcony" ->
          {<<"b", "a", "l", "k", "o", "n">>}
      [] feat = "basement" ->
          {<<"p", "i", "w", "n", "i", "c", "a">>}
      [] feat = "garden" ->
          {<<"o", "g", "r", "U+00F3", "d">>,
           <<"o", "g", "r", "U+00F3", "d", "e", "k">>}
      [] feat = "terrace" ->
          {<<"t", "a", "r", "a", "s">>}
      [] feat = "parking" ->
          {<<"p", "a", "r", "k", "i", "n", "g">>,
           <<"g", "a", "r", "a", "U+017C">>,
           <<"m", "i", "e", "j", "s", "c", "e", " ", "p", "o", "s", "t", "o", "j", "o", "w", "e">>}
      [] feat = "elevator" ->
          {<<"w", "i", "n", "d", "a">>}
      [] feat = "bathtub" ->
          {<<"w", "a", "n", "n", "a">>}
      [] feat = "air_conditioning" ->
          {<<"k", "l", "i", "m", "a", "t", "y", "z", "a", "c", "j", "a">>}
      [] feat = "intercom" ->
          {<<"d", "o", "m", "o", "f", "o", "n">>,
           <<"w", "i", "d", "e", "o", "f", "o", "n">>}
      [] feat = "separate_kitchen" ->
          {<<"o", "d", "d", "z", "i", "e", "l", "n", "a", " ", "k", "u", "c", "h", "n", "i", "a">>}
      [] feat = "security" ->
          {<<"m", "o", "n", "i", "t", "o", "r", "i", "n", "g">>,
           <<"o", "c", "h", "r", "o", "n", "a">>}

\* _stringify(v)
Stringify(v) ==
    CASE v.t = "dict" ->
            LET q == SetToSeq(v.d)
            IN  JoinChars([i \in DOMAIN q |->
                    NameChars(q[i][1]) \o <<":">> \o (IF q[i][2] THEN TrueChars ELSE FalseChars)],
                  Space)
      [] v.t = "list" -> JoinChars([i \in DOMAIN v.l |-> NameChars(v.l[i].name)], Space)
      [] OTHER -> StrOf(v)

Whitespace == {" ", "\n", "\t"}

RECURSIVE LStrip(_, _)
\* drop the leading characters that belong to the set
LStrip(s, set) == IF s # <<>> /\ s[1] \in set THEN LStrip(Tail(s), set) ELSE s

RECURSIVE RStrip(_, _)
RStrip(s, set) ==
    IF s # <<>> /\ s[Len(s)] \in set THEN RStrip(SubSeq(s, 1, Len(s) - 1), set) ELSE s

\* str.strip()
Strip(s) == RStrip(LStrip(s, Whitespace), Whitespace)

\* the indices of a sequence that satisfy a test, in order
RECURSIVE SelectIdx(_, _)
SelectIdx(n, keep) ==
    IF n = 0 THEN <<>>
    ELSE IF n \in keep THEN Append(SelectIdx(n - 1, keep), n) ELSE SelectIdx(n - 1, keep)

\* a nested field of a raw record: absent, None, a mapping, or some other
\* truthy value (a number, a string)
IsMapping(x) == x.shape = "dict"

\* item.get("label", "").strip() of an additionalInfo entry
LabelOf(item) == IF item.label.t = "absent" THEN PyStr(NoChars) ELSE item.label
InfoItems(r) == IF r.additionalInfo.shape = "list" THEN r.additionalInfo.items ELSE <<>>
InfoDicts(r) == {i \in DOMAIN InfoItems(r) : InfoItems(r)[i].isdict}
InfoKey(r, i) == Strip(LabelOf(InfoItems(r)[i]).s)

\* add.values(): one value per distinct label, in order of first insertion,
\* a later entry with the same label replacing the value
AddValues(r) ==
    LET first == {i \in InfoDicts(r) : \A j \in InfoDicts(r) : j < i => InfoKey(r, j) # InfoKey(r, i)}
        order == SelectIdx(Len(InfoItems(r)), first)
        last(i) == Max({j \in InfoDicts(r) : InfoKey(r, j) = InfoKey(r, i)})
        value(i) == IF InfoItems(r)[i].value.t = "absent" THEN PyStr(NoChars)
                    ELSE InfoItems(r)[i].value
    IN  [k \in DOMAIN order |-> value(last(order[k]))]

\* lines 71-73
ExtrasBlob(r) ==
    Lower(JoinChars([k \in DOMAIN AddValues(r) |-> Stringify(AddValues(r)[k])], Space)
          \o Space \o StrOf(OrElse(r.description, PyStr(NoChars))))

\* lines 75-77
DetectFeatures(r) ==
    [feat \in FeatureNames |-> \E k \in FEATURE_SYNONYMS(feat) : Contains(ExtrasBlob(r), k)]

MediaItems(r) == IF r.media.shape = "list" THEN r.media.items ELSE <<>>

PlnChars == <<"P", "L", "N">>
ImageChars == <<"i", "m", "a", "g", "e">>

\* the exception normalize lets escape on this record, "none" when it returns
NormalizeRaises(r) ==
    CASE r.location.shape = "other" -> "AttributeError"
      [] r.additionalInfo.shape = "other" -> "TypeError"
      [] \E i \in InfoDicts(r) : LabelOf(InfoItems(r)[i]).t # "str" -> "AttributeError"
      [] FloatOf(OrElse(r.price, PyInt(0))) = Absent -> "ValueError"
      [] r.pricePerM2.shape = "other" -> "AttributeError"
      [] IsMapping(r.pricePerM2) /\ FloatOf(OrElse(r.pricePerM2.value, PyInt(0))) = Absent
            -> "ValueError"
      [] IsMapping(r.location) /\ Truthy(r.location.city) /\ r.location.city.t # "str"
            -> "AttributeError"
      [] IsMapping(r.location) /\ Truthy(r.location.voivodeship)
            /\ r.location.voivodeship.t # "str" -> "AttributeError"
      [] GetOrNone(r.bedrooms) \notin {PyNone, PyStr(NoChars)} /\ IntOf(r.bedrooms) = Absent
            -> "ValueError"
      [] FloatOf(OrElse(r.areaM2, PyInt(0))) = Absent -> "ValueError"
      [] r.media.shape = "other" -> "TypeError"
      [] \E i \in DOMAIN MediaItems(r) : ~MediaItems(r)[i].isdict -> "AttributeError"
      [] OTHER -> "none"

\* lines 79-93: the Property normalize returns (when it returns)
Normalize(r) ==
    [id |-> OrElse(OrElse(GetOrNone(r.sourceId), GetOrNone(r.id)), PyStr(NoChars)),
     title |-> GetOrNone(r.title),
     price |-> FloatOf(OrElse(r.price, PyInt(0))).n,
     priceCurrency |->
        IF IsMapping(r.pricePerM2) /\ r.pricePerM2.currency.t # "absent"
        THEN r.pricePerM2.currency ELSE PyStr(PlnChars),
     pricePerM2 |->
        IF IsMapping(r.pricePerM2) THEN FloatOf(OrElse(r.pricePerM2.value, PyInt(0))).n ELSE 0,
     city |-> IF IsMapping(r.location) /\ Truthy(r.location.city)
              THEN Capitalize(r.location.city.s) ELSE NoChars,
     voivodeship |-> IF IsMapping(r.location) /\ Truthy(r.location.voivodeship)
                     THEN Capitalize(r.location.voivodeship.s) ELSE NoChars,
     district |-> IF IsMapping(r.location) THEN GetOrNone(r.location.district) ELSE PyNone,
     bedrooms |-> IF GetOrNone(r.bedrooms) \notin {PyNone, PyStr(NoChars)}
                  THEN IntOf(r.bedrooms) ELSE PyNone,
     areaM2 |-> FloatOf(OrElse(r.areaM2, PyInt(0))).n,
     features |-> DetectFeatures(r),
     description |-> OrElse(r.description, PyStr(NoChars)),
     media |->
        LET img == {i \in DOMAIN MediaItems(r) : MediaItems(r)[i].kind = PyStr(ImageChars)}
            order == SelectIdx(Len(MediaItems(r)), img)
        IN  [k \in DOMAIN order |-> GetOrNone(MediaItems(r)[order[k]].url)],
     analysis |-> PyNone]

-----------------------------------------------------------------------------
(* Advisor.  The oracle's text is a sequence of characters here.            *)

\* line 115: the characters stripped from both ends, as the source file has
\* them: whitespace, the ASCII quotes (U+0027, U+0022) and backtick (U+0060),
\* and four Cyrillic letters
StripClass ==
    Whitespace \cup {"U+0027", "U+0022", "U+0060", "U+0432", "U+0496", "U+049B", "U+04A3"}

Fence == <<"U+0060", "U+0060", "U+0060">>

StartsWith(s, prefix) == Len(s) >= Len(prefix) /\ SubSeq(s, 1, Len(prefix)) = prefix
EndsWith(s, suffix) ==
    Len(s) >= Len(suffix) /\ SubSeq(s, Len(s) - Len(suffix) + 1, Len(s)) = suffix

\* line 114: re.sub(r"^```.*?```$", "", t, flags=re.S) deletes a text that
\* opens and closes with a fence, and leaves every other text alone
DropFenced(t) ==
    IF Len(t) >= 2 * Len(Fence) /\ StartsWith(t, Fence) /\ EndsWith(t, Fence) THEN <<>> ELSE t

\* line 116
Sentinels ==
    {<<>>, <<"U+0027", "U+0027">>, <<"U+0022", "U+0022">>,
     <<"U+0432", "U+0496", "U+04A3", "U+0432", "U+0496", "U+049B">>,
     <<"U+0060", "U+0060">>, <<"n", "o", "n", "e">>, <<"n", "u", "l", "l">>}

\* _sanitize(text)
Sanitize(text) ==
    IF text = <<>> THEN <<>>
    ELSE LET t == RStrip(LStrip(DropFenced(Strip(text)), StripClass), StripClass)
         IN  IF t \in Sentinels THEN <<>> ELSE t

\* len(t.split()): the maximal runs of non-whitespace characters
TokenCount(t) ==
    Cardinality({i \in DOMAIN t : t[i] \notin Whitespace /\ (i = 1 \/ t[i - 1] \in Whitespace)})

MinTokens == 6

\* line 123: the characters listed in the negated class of the pattern, as
\* the source file has them
ValidClass ==
    {UpperChars[i] : i \in DOMAIN UpperChars} \cup {LowerChars[i] : i \in DOMAIN LowerChars}
    \cup Digits
    \cup {"U+0414", "U+2026", "U+04AE", "U+04B7", "U+0415", "U+04EE", "U+201E",
          "U+0413", "U+0456", "U+04E3", "U+04D9", "U+0458", "U+04B6", "U+04B3",
          "U+0492", "U+0493", "U+201C", "U+04A1", "U+2116", "U+00BB"}

\* _looks_valid(t)
LooksValid(t) ==
    /\ t # <<>>
    /\ TokenCount(t) >= MinTokens
    /\ \E i \in DOMAIN t : t[i] \in ValidClass

\* line 148
Fallback ==
    <<"N", "o", " ", "s", "t", "r", "o", "n", "g", " ", "A", "I",
      " ", "a", "d", "v", "i", "c", "e", " ", "a", "v", "a", "i",
      "l", "a", "b", "l", "e", ";", " ", "c", "o", "n", "s", "i",
      "d", "e", "r", " ", "w", "i", "d", "e", "n", "i", "n", "g",
      " ", "y", "o", "u", "r", " ", "s", "e", "a", "r", "c", "h",
      " ", "a", "r", "e", "a", " ", "o", "r", " ", "i", "n", "c",
      "r", "e", "a", "s", "i", "n", "g", " ", "b", "u", "d", "g",
      "e", "t", " ", "s", "l", "i", "g", "h", "t", "l", "y", ".">>

\* the loop written as range(self.max_retries): one attempt short
AttemptsOneShort(retries) == retries
\* range(self.max_retries + 1)
Attempts(retries) == retries + 1

\* raw = getattr(resp, "output_text", "") or "", and "" when the call raised
RawOf(out) == IF out.kind = "fail" THEN <<>> ELSE out.chars

-----------------------------------------------------------------------------
(* PropertyAnalyzer *)

AnalysisKeys == {"summary", "condition", "recommendation"}

\* the three shapes of an analysis object, and the placeholder of line 96
JsonAnalysis(obj) == [tag |-> "json", obj |-> obj, raw |-> <<>>, msg |-> NoChars]
RawAnalysis(raw) ==
    [tag |-> "raw", obj |-> [key \in AnalysisKeys |-> Absent], raw |-> raw, msg |-> NoChars]
ErrorAnalysis(msg) ==
    [tag |-> "error", obj |-> [key \in AnalysisKeys |-> Absent], raw |-> <<>>, msg |-> msg]
Placeholder ==
    [tag |-> "pending", obj |-> [key \in AnalysisKeys |-> Absent], raw |-> <<>>,
     msg |-> NoChars]

MediaInPrompt == 3

\* lines 76-78, outside the try: slicing a description that is not a string
\* and joining media entries that are not strings raise TypeError
AnalyzeRaises(p) ==
    \/ Truthy(p.description) /\ p.description.t # "str"
    \/ \E i \in DOMAIN p.media : i <= MediaInPrompt /\ p.media[i].t # "str"

\* lines 79-89: what analyze_property returns for one oracle outcome
AnalyzeReturn(out) ==
    IF out.kind = "fail" THEN ErrorAnalysis(out.msg)
    ELSE IF ~HasSpan(out.text) THEN RawAnalysis(out.text)
    ELSE IF ~SpanDecodes(Span(out.text)) THEN ErrorAnalysis(MsgDecode)
    ELSE JsonAnalysis(JsonLoads(Span(out.text), AnalysisKeys))

\* the loop run over the distinct properties: a duplicate gets no entry
PlaceholderPerDistinct(ps) == [i \in 1..Cardinality({ps[j] : j \in DOMAIN ps}) |-> Placeholder]
\* lines 94-97
PlaceholderResults(ps) == [i \in DOMAIN ps |-> Placeholder]

-----------------------------------------------------------------------------
(* Oracle outputs the model feeds the parsers *)

MaxMembers == 2   \* members in a generated JSON object

KrChars == <<"K", "r">>
NumChars == <<"4", "0">>

SampleVals ==
    {PyNone, PyInt(3), PyBool(TRUE), PyStr(KrChars), PyStr(NumChars),
     PyList(<<Elem("str", "balcony")>>), PyDict({<<"balcony", TRUE>>})}

\* the keys the oracle fills in: one of each kind of the schema
MemberKeys == {"city", "bedrooms", "price_min", "price_max", "features", "keywords"}

FilterMembers ==
    {Member(key, v) : key \in MemberKeys, v \in SampleVals}
    \cup {Member("features", PyList(<<Elem("list", "")>>))}

Bodies(members) == UNION {[1..n -> members] : n \in 0..MaxMembers}

\* no braces, unbalanced or reversed braces, prose inside braces, two objects
MalformedTexts ==
    {<<>>, <<Prose>>, <<LBrace>>, <<RBrace>>, <<RBrace, Prose, LBrace>>,
     <<LBrace, Prose, RBrace>>, <<LBrace, RBrace, Prose, LBrace, RBrace>>}

TextsOver(members) ==
    MalformedTexts
    \cup {<<LBrace>> \o b \o <<RBrace>> : b \in Bodies(members)}
    \cup {<<Prose, LBrace>> \o b \o <<RBrace, Prose>> : b \in Bodies(members)}

\* what one oracle call can do: fail, or return one of the texts
Outcomes(members) ==
    {OracleFail(MsgTransport)} \cup {OracleText(t) : t \in TextsOver(members)}

-----------------------------------------------------------------------------
(* Raw records the model feeds the normalizer *)

AbChars == <<"a", "b">>
WaChars == <<"w", "a">>
WindaChars == <<"m", "a", " ", "W", "i", "n", "d", "a">>
BalkonChars == <<"B", "a", "l", "k", "o", "n">>
UrlChars == <<"u">>

NoNested == [shape |-> "absent", value |-> Absent, currency |-> Absent]
NoLocation == [shape |-> "absent", city |-> Absent, voivodeship |-> Absent, district |-> Absent]
NoList == [shape |-> "absent", items |-> <<>>]
Location(city, voiv) ==
    [shape |-> "dict", city |-> city, voivodeship |-> voiv, district |-> Absent]
PricePerM2(value, currency) == [shape |-> "dict", value |-> value, currency |-> currency]
InfoList(items) == [shape |-> "list", items |-> items]
InfoItem(label, value) == [isdict |-> TRUE, label |-> label, value |-> value]
MediaItem(kind, url) == [isdict |-> TRUE, kind |-> kind, url |-> url]
NotADict == [isdict |-> FALSE, label |-> Absent, value |-> Absent]
NotAMedia == [isdict |-> FALSE, kind |-> Absent, url |-> Absent]

\* the record with no key at all
EmptyRaw ==
    [sourceId |-> Absent, id |-> Absent, title |-> Absent, price |-> Absent,
     pricePerM2 |-> NoNested, location |-> NoLocation, bedrooms |-> Absent,
     areaM2 |-> Absent, additionalInfo |-> NoList, description |-> Absent,
     media |-> NoList]

RawPrices == {Absent, PyInt(5), PyStr(NumChars), PyStr(AbChars)}
RawBedrooms == {Absent, PyStr(NoChars), PyInt(0), PyStr(<<"3">>), PyStr(AbChars)}
RawLocations ==
    {[NoLocation EXCEPT !.shape = "null"], [NoLocation EXCEPT !.shape = "other"],
     Location(PyStr(<<"k", "R">>), PyStr(WaChars)), Location(PyInt(3), Absent)}
RawPricePerM2 ==
    {[NoNested EXCEPT !.shape = "other"], PricePerM2(PyInt(4), Absent),
     PricePerM2(PyStr(AbChars), PyStr(PlnChars))}
RawAreas == {PyInt(2), PyStr(AbChars)}
RawInfos ==
    {NoList, [NoList EXCEPT !.shape = "other"],
     InfoList(<<InfoItem(PyStr(<<" ", "x">>), PyStr(BalkonChars)), NotADict>>),
     InfoList(<<InfoItem(PyNone, PyStr(BalkonChars))>>)}
RawMedia ==
    {NoList, InfoList(<<MediaItem(PyStr(ImageChars), PyStr(UrlChars)),
                        MediaItem(PyStr(AbChars), PyStr(UrlChars))>>),
     InfoList(<<NotAMedia>>)}
RawDescriptions == {Absent, PyStr(WindaChars)}

SampleRaw ==
    {[EmptyRaw EXCEPT !.sourceId = PyStr(<<"A", "1">>), !.price = p, !.bedrooms = b,
                      !.location = loc, !.pricePerM2 = ppm, !.areaM2 = a,
                      !.additionalInfo = info, !.media = m, !.description = d] :
        p \in RawPrices, b \in RawBedrooms, loc \in RawLocations, ppm \in RawPricePerM2,
        a \in RawAreas, info \in RawInfos, m \in RawMedia, d \in RawDescriptions}
    \cup {EmptyRaw}

NoProperty ==
    [id |-> PyNone, title |-> PyNone, price |-> 0, priceCurrency |-> PyNone,
     pricePerM2 |-> 0, city |-> NoChars, voivodeship |-> NoChars, district |-> PyNone,
     bedrooms |-> PyNone, areaM2 |-> 0, features |-> [feat \in FeatureNames |-> FALSE],
     description |-> PyNone, media |-> <<>>, analysis |-> PyNone]

-----------------------------------------------------------------------------
(* PropertyRecommender.filter_properties.  A DataFrame is the sequence of   *)
(* its rows; its columns are the Property fields, and a frame built from no *)
(* row has no column.                                                       *)

PropertyColumns ==
    {"id", "title", "price", "priceCurrency", "pricePerM2", "city", "voivodeship",
     "district", "bedrooms", "areaM2", "features", "description", "media", "analysis"}

\* pd.DataFrame([p.__dict__ for p in props]).columns
Columns(frame) == IF frame = <<>> THEN {} ELSE PropertyColumns

IsNumber(v) == v.t \in {"int", "float", "bool"}

Frame(rows) == [raised |-> "none", rows |-> rows]
Failed(exc) == [raised |-> exc, rows |-> <<>>]

\* one `if filters.get(key): data = data[<mask on column col>]` statement,
\* kept being the rows of st the mask keeps; data[col] raises KeyError when
\* the frame has no such column
Restrict(st, active, col, cols, kept) ==
    IF st.raised # "none" \/ ~active THEN st
    ELSE IF col \notin cols THEN Failed("KeyError")
    ELSE Frame(kept)

\* the same for an ordering comparison, which raises TypeError against a
\* value that is not a number
RestrictOrdered(st, active, v, col, cols, kept) ==
    IF st.raised # "none" \/ ~active THEN st
    ELSE IF col \notin cols THEN Failed("KeyError")
    ELSE IF ~IsNumber(v) THEN Failed("TypeError")
    ELSE Frame(kept)

\* the `if filters.get(key):` guards of lines 37-50
CityActive(f) == Truthy(f["city"])
VoivodeshipActive(f) == Truthy(f["voivodeship"])
\* the guard written as `is not None`: a zero becomes a constraint
BedroomsActiveNotNone(f) == f["bedrooms"].t \notin {"absent", "null"}
BedroomsActive(f) == Truthy(f["bedrooms"])
PriceMaxActive(f) == Truthy(f["price_max"])
PriceMinActiveNotNone(f) == f["price_min"].t \notin {"absent", "null"}
PriceMinActive(f) == Truthy(f["price_min"])
AreaMaxActive(f) == Truthy(f["area_max"])
AreaMinActive(f) == Truthy(f["area_min"])

\* data[feat] == True, row by row: a numeric cell equals True when it is 1,
\* a string, dict, list or None cell never does
CellIsTrue(row, feat) ==
    CASE feat \in {"price", "pricePerM2", "areaM2"} -> row[feat] = 1
      [] feat = "bedrooms" -> row.bedrooms.t = "int" /\ row.bedrooms.n = 1
      [] OTHER -> FALSE

\* lines 51-53: filters.get("features", {}), a list turned into a dict
FeaturesOf(f) ==
    IF f["features"].t = "absent" THEN PyDict(NoMap)
    ELSE IF f["features"].t = "list"
    THEN PyDict({<<f["features"].l[i].name, TRUE>> : i \in DOMAIN f["features"].l})
    ELSE f["features"]

\* line 56: the test that decides whether a requested feature restricts
FeatureApplies(feat, val, cols) == feat \in cols /\ val

\* lines 54-57
RestrictFeatures(st, f, cols) ==
    IF st.raised # "none" THEN st
    ELSE IF FeaturesRaises(f) THEN Failed("TypeError")
    ELSE IF FeaturesOf(f).t # "dict" THEN st
    ELSE Frame(SelectSeq(st.rows,
            LAMBDA row : \A fv \in FeaturesOf(f).d :
                            FeatureApplies(fv[1], fv[2], cols) => CellIsTrue(row, fv[1])))

\* filter_properties(filters) on a recommender whose df is frame: the rows
\* of the returned frame, or the exception that escapes
FilterProperties(frame, f) ==
    LET cols == Columns(frame)
        s0 == Frame(frame)
        s1 == Restrict(s0, CityActive(f), "city", cols,
                SelectSeq(s0.rows, LAMBDA row : Lower(row.city) = Lower(StrOf(f["city"]))))
        s2 == Restrict(s1, VoivodeshipActive(f), "voivodeship", cols,
                SelectSeq(s1.rows, LAMBDA row :
                    Lower(row.voivodeship) = Lower(StrOf(f["voivodeship"]))))
        s3 == Restrict(s2, BedroomsActive(f), "bedrooms", cols,
                SelectSeq(s2.rows, LAMBDA row : /\ row.bedrooms.t = "int"
                                                /\ IsNumber(f["bedrooms"])
                                                /\ row.bedrooms.n = f["bedrooms"].n))
        s4 == RestrictOrdered(s3, PriceMaxActive(f), f["price_max"], "price", cols,
                SelectSeq(s3.rows, LAMBDA row : row.price <= f["price_max"].n))
        s5 == RestrictOrdered(s4, PriceMinActive(f), f["price_min"], "price", cols,
                SelectSeq(s4.rows, LAMBDA row : row.price >= f["price_min"].n))
        s6 == RestrictOrdered(s5, AreaMaxActive(f), f["area_max"], "areaM2", cols,
                SelectSeq(s5.rows, LAMBDA row : row.areaM2 <= f["area_max"].n))
        s7 == RestrictOrdered(s6, AreaMinActive(f), f["area_min"], "areaM2", cols,
                SelectSeq(s6.rows, LAMBDA row : row.areaM2 >= f["area_min"].n))
    IN  RestrictFeatures(s7, f, cols)

-----------------------------------------------------------------------------
(* Datasets and filters the model feeds the engine *)

MaxRows == 2   \* rows in a dataset

DatasetRecord(id, price, city, bedrooms, area, description) ==
    [EmptyRaw EXCEPT !.sourceId = PyStr(id), !.price = price,
                     !.location = Location(PyStr(city), PyStr(WaChars)),
                     !.bedrooms = bedrooms, !.areaM2 = area, !.description = description]

\* what the listing store returns: records normalize accepts
DatasetRaw ==
    {DatasetRecord(<<"A">>, PyInt(5), KrChars, PyStr(<<"3">>), PyInt(2), PyStr(BalkonChars)),
     DatasetRecord(<<"B">>, PyInt(0), KrChars, PyInt(0), PyInt(0), PyStr(WindaChars)),
     DatasetRecord(<<"C">>, PyInt(3), WaChars, Absent, PyInt(-1), Absent),
     DatasetRecord(<<"D">>, PyInt(-1), WaChars, PyInt(1), PyInt(1), PyStr(BalkonChars))}

RawDatasets == UNION {[1..n -> DatasetRaw] : n \in 0..MaxRows}

\* props = [normalizer.normalize(r) for r in raw]; df = pd.DataFrame(...)
BuildFrame(raw) == [i \in DOMAIN raw |-> Normalize(raw[i])]

MakeFilter(city, bedrooms, pmin, pmax, amin, amax, features) ==
    [key \in DictKeys |->
        CASE key = "city" -> city
          [] key = "bedrooms" -> bedrooms
          [] key = "price_min" -> pmin
          [] key = "price_max" -> pmax
          [] key = "area_min" -> amin
          [] key = "area_max" -> amax
          [] key = "features" -> features
          [] key = "keywords" -> PyList(NoElems)
          [] key = "error" -> Absent
          [] OTHER -> PyNone]

\* the Filter parse returns when the oracle gave nothing usable
DefaultFilter == SetDefaults(NoFilters)

SampleFeatures ==
    {PyDict(NoMap), PyDict({<<"balcony", TRUE>>}), PyDict({<<"balcony", FALSE>>}),
     PyDict({<<"bedrooms", TRUE>>, <<"elevator", TRUE>>})}

SampleFilters ==
    {MakeFilter(c, b, pmin, pmax, amin, amax, ft) :
        c \in {PyNone, PyStr(<<"k", "R">>)},
        b \in {PyNone, PyInt(0), PyInt(3)},
        pmin \in {PyNone, PyInt(0), PyFloat(0), PyFloat(3)},
        pmax \in {PyNone, PyFloat(3)},
        amin \in {PyNone, PyInt(0), PyFloat(1)},
        amax \in {PyNone, PyFloat(1)},
        ft \in SampleFeatures}
    \cup {DefaultFilter, CoerceBounds(DefaultFilter),
          CoerceBounds(SetDefaults(ErrorDict(MsgNoJson))),
          [DefaultFilter EXCEPT !["voivodeship"] = PyStr(WaChars)]}

-----------------------------------------------------------------------------
(* Oracle outputs the model feeds the advisor *)

MaxRetries == 1   \* the largest max_retries an Advisor is built with

Words == {<<"o", "k">>, <<"!">>, <<"U+2026">>, <<"U+0105">>}

Repeat(word, n) == JoinChars([i \in 1..n |-> word], Space)

Wrap(kind, t) ==
    CASE kind = "quoted" -> <<"U+0022">> \o t \o <<"U+0022">>
      [] kind = "padded" -> <<" ", "\n">> \o t \o <<"\n">>
      [] kind = "fenced" -> Fence \o t \o Fence
      [] OTHER -> t

AdvisorTexts ==
    {Wrap(kind, Repeat(word, n)) :
        kind \in {"plain", "quoted", "padded", "fenced"}, word \in Words,
        n \in {MinTokens - 1, MinTokens}}
    \cup {<<>>, <<"n", "u", "l", "l">>, <<"U+0027", "U+0027">>,
          Repeat(<<"!">>, MinTokens - 1) \o <<" ", "o", "k">>}

AdvisorOutcomes ==
    {[kind |-> "fail", chars |-> <<>>]} \cup {[kind |-> "text", chars |-> t] : t \in AdvisorTexts}

-----------------------------------------------------------------------------
(* Properties and oracle outputs the model feeds the analyzer *)

MaxProps == 2   \* properties in a batch

SummaryMember == Member("summary", PyStr(AbChars))
ConditionMember == Member("condition", PyStr(KrChars))

AnalysisOutcomes ==
    {OracleFail(MsgTransport)}
    \cup {OracleText(t) : t \in MalformedTexts}
    \cup {OracleText(<<LBrace, SummaryMember, RBrace>>),
          OracleText(<<Prose, LBrace, SummaryMember, ConditionMember, RBrace, Prose>>)}

\* normalized properties: a plain one, one with an image, one whose image
\* entry has no url (media = [None])
AnalyzerProps ==
    {Normalize(DatasetRecord(<<"A">>, PyInt(5), KrChars, PyStr(<<"3">>), PyInt(2),
                             PyStr(BalkonChars))),
     Normalize([EmptyRaw EXCEPT !.sourceId = PyStr(<<"B">>),
                  !.media = InfoList(<<MediaItem(PyStr(ImageChars), PyStr(UrlChars))>>)]),
     Normalize([EmptyRaw EXCEPT !.sourceId = PyStr(<<"C">>),
                  !.media = InfoList(<<MediaItem(PyStr(ImageChars), Absent)>>)])}

Batches == UNION {[1..n -> AnalyzerProps] : n \in 0..MaxProps}

-----------------------------------------------------------------------------
(* /recommend *)

SessionIds == {"s1"}

NoResponse ==
    [present |-> FALSE, filters |-> NoFilters, results |-> <<>>, advisor |-> NoChars]

\* the first exception normalize raises over the dataset, "none" if none
NormalizeAllRaises(raw) ==
    IF \A i \in DOMAIN raw : NormalizeRaises(raw[i]) = "none" THEN "none"
    ELSE NormalizeRaises(raw[Min({i \in DOMAIN raw : NormalizeRaises(raw[i]) # "none"})])

FillCell(v) == IF v.t = "null" THEN PyInt(0) ELSE v

\* lines 95-96: results.replace([inf, -inf], nan).fillna(0)
FillNa(rows) ==
    [i \in DOMAIN rows |->
        [rows[i] EXCEPT !.id = FillCell(@), !.title = FillCell(@), !.district = FillCell(@),
                        !.bedrooms = FillCell(@), !.priceCurrency = FillCell(@),
                        !.description = FillCell(@), !.analysis = FillCell(@)]]

\* line 99 reads the local `top`, which line 101 assigns: every call that gets
\* this far raises UnboundLocalError, and lines 101-103 never run
PrintRaises == TRUE

TopN == 5

RecommendMembers ==
    {Member("city", PyStr(KrChars)), Member("price_max", PyInt(3)),
     Member("features", PyList(<<Elem("list", "")>>))}

RecommendDatasets == RawDatasets

-----------------------------------------------------------------------------
Init ==
    /\ pc = "idle"
    /\ oracleOut = OracleText(<<>>)
    /\ filters = NoFilters
    /\ record = EmptyRaw
    /\ prop = NoProperty
    /\ df = <<>>
    /\ results = <<>>
    /\ maxRetries = 1
    /\ attempt = 0
    /\ calls = 0
    /\ responses = <<>>
    /\ advice = <<>>
    /\ props = <<>>
    /\ useLlm = TRUE
    /\ analyses = <<>>
    /\ cacheMem = [sid \in SessionIds |-> NoFilters]
    /\ response = NoResponse
    /\ raised = "none"

\* one call of AIFilterParser.parse(query, df) against one oracle outcome
Parse ==
    \E out \in Outcomes(FilterMembers) :
        /\ pc = "idle"
        /\ pc' = "parse"
        /\ oracleOut' = out
        /\ IF ParseRaises(out)
           THEN filters' = NoFilters /\ raised' = "TypeError"
           ELSE filters' = ParseReturn(out) /\ raised' = "none"
        /\ UNCHANGED <<record, prop, df, results>>
        /\ UNCHANGED advisorVars
        /\ UNCHANGED analyzerVars
    /\ UNCHANGED handlerVars
        /\ UNCHANGED handlerVars

\* one call of PropertyNormalizer.normalize(record)
NormalizeCall ==
    \E r \in SampleRaw :
        /\ pc = "idle"
        /\ pc' = "normalize"
        /\ record' = r
        /\ raised' = NormalizeRaises(r)
        /\ prop' = IF NormalizeRaises(r) = "none" THEN Normalize(r) ELSE NoProperty
        /\ UNCHANGED <<oracleOut, filters, df, results>>
        /\ UNCHANGED advisorVars
        /\ UNCHANGED analyzerVars
    /\ UNCHANGED handlerVars
        /\ UNCHANGED handlerVars

\* PropertyRecommender(df) on the frame of a normalized dataset
Construct ==
    \E raw \in RawDatasets :
        /\ pc = "idle"
        /\ pc' = "constructed"
        /\ df' = BuildFrame(raw)
        /\ UNCHANGED <<oracleOut, filters, record, prop, results, raised>>
        /\ UNCHANGED advisorVars
        /\ UNCHANGED analyzerVars
    /\ UNCHANGED handlerVars
        /\ UNCHANGED handlerVars

\* one call of recommender.filter_properties(filters)
FilterCall ==
    \E f \in SampleFilters :
        /\ pc = "constructed"
        /\ pc' = "filter"
        /\ filters' = f
        /\ results' = FilterProperties(df, f).rows
        /\ raised' = FilterProperties(df, f).raised
        /\ UNCHANGED <<oracleOut, record, prop, df>>
        /\ UNCHANGED advisorVars
        /\ UNCHANGED analyzerVars
    /\ UNCHANGED handlerVars
        /\ UNCHANGED handlerVars

\* Advisor(max_retries=...).advise(user_query, top_properties) is entered
AdviseCall ==
    \E retries \in 0..MaxRetries :
        /\ pc = "idle"
        /\ pc' = "advising"
        /\ maxRetries' = retries
        /\ attempt' = 0
        /\ calls' = 0
        /\ responses' = <<>>
        /\ advice' = <<>>
        /\ UNCHANGED <<oracleOut, filters, record, prop, df, results, raised>>
        /\ UNCHANGED analyzerVars
    /\ UNCHANGED handlerVars
        /\ UNCHANGED handlerVars

\* one iteration of the loop of lines 133-146: the oracle call, _sanitize,
\* _looks_valid, and either the return or the sleep
AdviseAttempt ==
    \E out \in AdvisorOutcomes :
        /\ pc = "advising"
        /\ attempt < Attempts(maxRetries)
        /\ calls' = calls + 1
        /\ responses' = Append(responses, out)
        /\ IF LooksValid(Sanitize(RawOf(out)))
           THEN pc' = "advised" /\ advice' = Sanitize(RawOf(out)) /\ attempt' = attempt
           ELSE pc' = "advising" /\ advice' = advice /\ attempt' = attempt + 1
        /\ UNCHANGED <<oracleOut, filters, record, prop, df, results, maxRetries, raised>>
        /\ UNCHANGED analyzerVars
    /\ UNCHANGED handlerVars
        /\ UNCHANGED handlerVars

\* line 148: the loop ran out
AdviseFallback ==
    /\ pc = "advising"
    /\ attempt >= Attempts(maxRetries)
    /\ pc' = "advised"
    /\ advice' = Fallback
    /\ UNCHANGED <<oracleOut, filters, record, prop, df, results, maxRetries, attempt,
                   calls, responses, raised>>
    /\ UNCHANGED analyzerVars
    /\ UNCHANGED handlerVars

requestVars ==
    <<filters, record, prop, df, results, maxRetries, attempt, advice, cacheMem, response>>

\* one call of PropertyAnalyzer.analyze_property(prop)
AnalyzeProperty ==
    \E p \in AnalyzerProps, out \in AnalysisOutcomes :
        /\ pc = "idle"
        /\ pc' = "analyzed"
        /\ props' = <<p>>
        /\ IF AnalyzeRaises(p)
           THEN /\ raised' = "TypeError"
                /\ UNCHANGED <<oracleOut, calls, responses, analyses>>
           ELSE /\ raised' = "none"
                /\ oracleOut' = out
                /\ calls' = calls + 1
                /\ responses' = Append(responses, out)
                /\ analyses' = <<AnalyzeReturn(out)>>
        /\ UNCHANGED useLlm
        /\ UNCHANGED requestVars

\* analyze_batch(props, use_llm) is entered; with use_llm false it returns
\* its placeholders at once (lines 93-97)
BatchCall ==
    \E ps \in Batches, llm \in BOOLEAN :
        /\ pc = "idle"
        /\ props' = ps
        /\ useLlm' = llm
        /\ IF llm
           THEN pc' = "batch" /\ analyses' = <<>>
           ELSE pc' = "batch_done" /\ analyses' = PlaceholderResults(ps)
        /\ UNCHANGED <<oracleOut, calls, responses, raised>>
        /\ UNCHANGED requestVars

\* lines 99-102: analyze_property on the next property, its result appended
BatchStep ==
    \E out \in AnalysisOutcomes :
        /\ pc = "batch"
        /\ Len(analyses) < Len(props)
        /\ IF AnalyzeRaises(props[Len(analyses) + 1])
           THEN /\ pc' = "batch_done"
                /\ raised' = "TypeError"
                /\ UNCHANGED <<oracleOut, calls, responses, analyses>>
           ELSE /\ pc' = "batch"
                /\ raised' = "none"
                /\ oracleOut' = out
                /\ calls' = calls + 1
                /\ responses' = Append(responses, out)
                /\ analyses' = Append(analyses, AnalyzeReturn(out))
        /\ UNCHANGED <<props, useLlm>>
        /\ UNCHANGED requestVars

\* line 103
BatchReturn ==
    /\ pc = "batch"
    /\ Len(analyses) = Len(props)
    /\ pc' = "batch_done"
    /\ UNCHANGED <<oracleOut, calls, responses, raised, props, useLlm, analyses>>
    /\ UNCHANGED requestVars

\* one GET /recommend?q=...&session_id=... (session "" stands for no id)
Recommend ==
    \E raw \in RecommendDatasets, out \in Outcomes(RecommendMembers),
       sid \in SessionIds \cup {""} :
        /\ pc = "idle"
        /\ pc' = "recommend"
        /\ response' = NoResponse
        /\ IF NormalizeAllRaises(raw) # "none"
           THEN /\ raised' = NormalizeAllRaises(raw)
                /\ UNCHANGED <<oracleOut, filters, df, results, cacheMem, calls, responses>>
           ELSE /\ oracleOut' = out
                /\ calls' = calls + 1
                /\ responses' = Append(responses, out)
                /\ IF ParseRaises(out)
                   THEN /\ raised' = "TypeError"
                        /\ UNCHANGED <<filters, df, results, cacheMem>>
                   ELSE /\ filters' = ParseReturn(out)
                        /\ cacheMem' = IF sid \in SessionIds
                                       THEN [cacheMem EXCEPT ![sid] = ParseReturn(out)]
                                       ELSE cacheMem
                        /\ df' = BuildFrame(raw)
                        /\ LET res == FilterProperties(BuildFrame(raw), ParseReturn(out))
                           IN  IF res.raised # "none"
                               THEN raised' = res.raised /\ results' = <<>>
                               ELSE /\ results' = FillNa(res.rows)
                                    /\ raised' = IF PrintRaises THEN "UnboundLocalError"
                                                  ELSE "none"
        /\ UNCHANGED <<record, prop, maxRetries, attempt, advice>>
        /\ UNCHANGED analyzerVars

\* the components keep no state between calls: the next call starts afresh
Finish ==
    /\ pc \notin {"idle", "advising", "batch"}
    /\ pc' = "idle"
    /\ oracleOut' = OracleText(<<>>)
    /\ filters' = NoFilters
    /\ record' = EmptyRaw
    /\ prop' = NoProperty
    /\ df' = <<>>
    /\ results' = <<>>
    /\ maxRetries' = 1
    /\ attempt' = 0
    /\ calls' = 0
    /\ responses' = <<>>
    /\ advice' = <<>>
    /\ props' = <<>>
    /\ useLlm' = TRUE
    /\ analyses' = <<>>
    /\ response' = NoResponse
    /\ raised' = "none"
    /\ UNCHANGED cacheMem

NextParse == Parse \/ Finish
NextNormalize == NormalizeCall \/ Finish
NextFilter == Construct \/ FilterCall \/ Finish
NextAdvise == AdviseCall \/ AdviseAttempt \/ AdviseFallback \/ Finish
NextRecommend == Recommend \/ Finish
NextAnalyze == AnalyzeProperty \/ BatchCall \/ BatchStep \/ BatchReturn \/ Finish

SpecParse == Init /\ [][NextParse]_vars
SpecNormalize == Init /\ [][NextNormalize]_vars
SpecFilter == Init /\ [][NextFilter]_vars
SpecAdvise == Init /\ [][NextAdvise]_vars
SpecAnalyze == Init /\ [][NextAnalyze]_vars
SpecRecommend == Init /\ [][NextRecommend]_vars

\* the Filter of the data model: ten keys, each of its declared type
FilterTyped(f) ==
    /\ \A key \in FilterKeys : f[key].t # "absent"
    /\ \A key \in {"city", "voivodeship", "district"} : f[key].t \in {"str", "null"}
    /\ f["bedrooms"].t \in {"int", "null"}
    /\ \A key \in BoundKeys : f[key].t \in {"int", "float", "null"}
    /\ f["features"].t = "dict"
    /\ f["keywords"].t = "list"
    /\ \A i \in DOMAIN f["keywords"].l : f["keywords"].l[i].et = "str"

\* C1: whatever the oracle did (failure, empty text, no {...} span, a span
\* that is not JSON, a JSON object with missing or wrongly typed values),
\* parse returns a Filter with all ten keys, each correctly typed.
C1_ParseAlwaysTyped ==
    pc = "parse" => (raised = "none" /\ FilterTyped(filters))


\* the safe defaults of the data model, field by field
DegradedSafely(r, p) ==
    /\ (FloatOf(OrElse(r.price, PyInt(0))) = Absent) => p.price = 0
    /\ (FloatOf(OrElse(r.areaM2, PyInt(0))) = Absent) => p.areaM2 = 0
    /\ (~IsMapping(r.pricePerM2)
          \/ FloatOf(OrElse(r.pricePerM2.value, PyInt(0))) = Absent) => p.pricePerM2 = 0
    /\ (IntOf(GetOrNone(r.bedrooms)) = Absent) => p.bedrooms = PyNone
    /\ (~IsMapping(r.location) \/ r.location.city.t # "str") => p.city = NoChars
    /\ (~IsMapping(r.location) \/ r.location.voivodeship.t # "str")
          => p.voivodeship = NoChars

\* C4: normalize is total: on every raw record, also one whose price,
\* areaM2, pricePerM2.value or bedrooms is unparsable or whose nested entries
\* are absent or malformed, it returns a Property without raising, each
\* missing or malformed field degraded to its safe default.
C4_NormalizeTotal ==
    pc = "normalize" => (raised = "none" /\ DegradedSafely(record, prop))


\* the filter with the features requested false taken out
WithoutFalseFeatures(f) ==
    [f EXCEPT !["features"] = PyDict({fv \in FeaturesOf(f).d : fv[2]})]

\* C3: on the dataset of normalized properties as recommend builds it, every
\* property filter_properties returns has, for every feature requested with a
\* truthy value, that flag true in its features mapping; features requested
\* false exclude no property.
C3_FeaturesRestrict ==
    (pc = "filter" /\ raised = "none") =>
        /\ \A fv \in FeaturesOf(filters).d :
              (fv[2] /\ fv[1] \in FeatureNames) =>
                  \A i \in DOMAIN results : results[i].features[fv[1]]
        /\ results = FilterProperties(df, WithoutFalseFeatures(filters)).rows

IsZero(v) == v.t \in {"int", "float"} /\ v.n = 0

\* every key at its default; the error key may or may not be there
IsDefaultFilter(f) ==
    /\ \A key \in {"city", "voivodeship", "district", "bedrooms", "price_max", "area_max"} :
          f[key] = PyNone
    /\ IsZero(f["price_min"]) /\ IsZero(f["area_min"])
    /\ f["features"] = PyDict(NoMap)
    /\ f["keywords"] = PyList(NoElems)

\* C9: filtering with an all-default Filter, with or without the inert error
\* key, returns every property of the stored dataset in its order and leaves
\* the stored dataset as it was.
C9_DefaultFilterIsIdentity ==
    [][(pc = "constructed" /\ pc' = "filter" /\ IsDefaultFilter(filters'))
          => (raised' = "none" /\ results' = df /\ df' = df)]_vars

C9_Witness ==
    /\ pc = "filter"
    /\ IsDefaultFilter(filters)
    /\ filters["error"] # Absent
    /\ Len(df) >= 2
    /\ \E i \in DOMAIN df : df[i].price < 0
    /\ results = df

Outcome(frame, f) == [raised |-> FilterProperties(frame, f).raised,
                      rows |-> FilterProperties(frame, f).rows]

\* C10: a bedrooms of 0 filters exactly as a bedrooms of null does, and a
\* price_min / area_min of 0 exactly as that bound at null does, whatever the
\* dataset and the rest of the Filter.
C10_ZeroIsNoConstraint ==
    pc = "filter" =>
        \A key \in {"bedrooms", "price_min", "area_min"} :
            IsZero(filters[key]) =>
                [raised |-> raised, rows |-> results]
                    = Outcome(df, [filters EXCEPT ![key] = PyNone])

C10_Witness ==
    /\ pc = "filter"
    /\ filters["bedrooms"] = PyInt(0)
    /\ IsZero(filters["price_min"])
    /\ \E i, j \in DOMAIN df :
          /\ df[i].bedrooms = PyInt(0) /\ df[j].bedrooms # PyInt(0)
          /\ df[j].price < 0
    /\ results = df


\* the text advise worked on in its i-th iteration
SanitizedAt(i) == Sanitize(RawOf(responses[i]))

\* C5: when every oracle call of advise returned empty text, text that fails
\* validation, or failed, advise has called the oracle exactly
\* max_retries + 1 times when it returns, and returns the fixed fallback
\* sentence; it never calls more often than that.
C5_FallbackAfterAllAttempts ==
    /\ calls <= maxRetries + 1
    /\ calls = Len(responses)
    /\ (pc = "advised" /\ \A i \in DOMAIN responses : ~LooksValid(SanitizedAt(i)))
          => (calls = maxRetries + 1 /\ advice = Fallback)

C5_Witness ==
    /\ pc = "advised"
    /\ maxRetries = 1
    /\ calls = 2
    /\ responses[1].kind = "fail"
    /\ responses[2].kind = "text" /\ TokenCount(responses[2].chars) = MinTokens - 1
    /\ advice = Fallback

\* letters and digits, the diacritic letters of the Polish alphabet among them
PolishLetters ==
    {"U+0105", "U+0107", "U+0119", "U+0142", "U+0144", "U+00F3", "U+015B", "U+017A",
     "U+017C", "U+0104", "U+0106", "U+0118", "U+0141", "U+0143", "U+00D3", "U+015A",
     "U+0179", "U+017B"}
IsAlphanumeric(c) ==
    \/ c \in Digits \/ c \in PolishLetters
    \/ \E i \in DOMAIN UpperChars : c = UpperChars[i] \/ c = LowerChars[i]

\* C6: the text advise returns is the fixed fallback sentence or the
\* sanitized text of its last attempt, and that text then has at least 6
\* whitespace-separated tokens and is not made only of non-alphanumeric
\* characters; it is never empty.
C6_ReturnsValidatedOrFallback ==
    pc = "advised" =>
        /\ advice # <<>>
        /\ \/ advice = Fallback
           \/ /\ responses # <<>>
              /\ advice = SanitizedAt(Len(responses))
              /\ TokenCount(advice) >= MinTokens
              /\ \E i \in DOMAIN advice : IsAlphanumeric(advice[i])


\* C7: analyze_property returns {"error": ...} only when the oracle call
\* itself failed; for a text from which no JSON object can be parsed (no
\* {...} span, or a span that is not JSON) it returns {"raw": the full text};
\* when the span parses it returns the parsed object.
C7_RawOnParseFailure ==
    (pc = "analyzed" /\ raised = "none") =>
        /\ analyses[1].tag = "error" => oracleOut.kind = "fail"
        /\ (oracleOut.kind = "text"
              /\ (~HasSpan(oracleOut.text) \/ ~SpanDecodes(Span(oracleOut.text))))
              => analyses[1] = RawAnalysis(oracleOut.text)
        /\ (oracleOut.kind = "text" /\ HasSpan(oracleOut.text)
              /\ SpanDecodes(Span(oracleOut.text)))
              => analyses[1] = JsonAnalysis(JsonLoads(Span(oracleOut.text), AnalysisKeys))

\* C8: analyze_batch(props, use_llm=False) makes no oracle call and returns
\* one placeholder per input property, position by position, also for an
\* empty batch and for a batch with duplicates.
C8_PlaceholderBatch ==
    (pc = "batch_done" /\ ~useLlm) =>
        /\ raised = "none"
        /\ calls = 0 /\ responses = <<>>
        /\ Len(analyses) = Len(props)
        /\ \A i \in DOMAIN props : analyses[i] = Placeholder

C8_Witness ==
    /\ pc = "batch_done" /\ ~useLlm
    /\ Len(props) = 2 /\ props[1] = props[2]
    /\ analyses = <<Placeholder, Placeholder>>


\* C2: whenever the listing store returned a dataset, recommend returns,
\* without raising, a response with filters, results and advisor: at most 5
\* properties, each passing the Filter Engine for the parsed filter, in
\* ascending price order, and a non-empty advisor text.
C2_RecommendResponds ==
    pc = "recommend" =>
        /\ raised = "none"
        /\ response.present
        /\ response.filters = filters
        /\ Len(response.results) <= TopN
        /\ \A i \in DOMAIN response.results :
              \E j \in DOMAIN results : response.results[i] = results[j]
        /\ \A i, j \in DOMAIN response.results :
              i < j => response.results[i].price <= response.results[j].price
        /\ response.advisor # NoChars

\* while analyze_batch(props, use_llm=True) runs and after it has ended, the
\* oracle has been called once per result so far, and the i-th result is
\* what analyze_property makes of the i-th oracle outcome (an error payload
\* for a failed call), never more results than properties
BatchMirrorsCalls ==
    (pc \in {"batch", "batch_done"} /\ useLlm) =>
        /\ calls = Len(analyses) /\ Len(responses) = Len(analyses)
        /\ Len(analyses) <= Len(props)
        /\ \A i \in DOMAIN analyses : analyses[i] = AnalyzeReturn(responses[i])
        /\ \A i \in DOMAIN analyses :
              responses[i].kind = "fail" => analyses[i].tag = "error"

\* analyze_batch(props, use_llm=True) ends by returning one result per
\* property
BatchCompletes ==
    (pc = "batch_done" /\ useLlm) =>
        /\ raised = "none"
        /\ Len(analyses) = Len(props)

\* C11: analyze_batch(props, use_llm=True) calls the oracle exactly once per
\* input property, in input order, one call after the other and none
\* retried; the i-th result is the outcome of the i-th call, the result is as
\* long as props, and a failed call i leaves an error payload at position i
\* without aborting the batch or shifting the other results.
C11_BatchOneCallEach == BatchMirrorsCalls /\ BatchCompletes

====
